---- MODULE Spec2Model ----
(***************************************************************************)
(* The active-tab time tracker of the extension (src/background.js), the   *)
(* browser it listens to, the GET_TIME_DATA message handler and the        *)
(* popup's domain statistics (src/unnamed/part_001), and the cursor        *)
(* sampler of a page (src/content.js).                                     *)
(*                                                                         *)
(* The browser is the environment.  Its events are delivered to the        *)
(* tracker in the order in which they happen, and a tabs.get / tabs.query  *)
(* callback reads the browser's state at the moment it is delivered        *)
(* (tabs.get on a closed tab reports chrome.runtime.lastError).  Pending   *)
(* callbacks complete in any order.  Handlers run to completion.           *)
(***************************************************************************)
EXTENDS Integers, Sequences, FiniteSets

VARIABLES
    now,            \* Date.now(), in clock units
    open,           \* browser: the tabs that exist
    tabUrl,         \* browser: tab id -> the url the tab shows
    brActive,       \* browser: the active tab of the window, or Null
    focused,        \* browser: the window has the focus
    activeTabId,    \* TimeTracker.activeTabId
    activeTabStart, \* TimeTracker.activeTabStart
    tabData,        \* TimeTracker.tabData (a Map: tab id -> record)
    storage,        \* chrome.storage.local, key tabData (tab id -> record)
    pendingGet,     \* chrome.tabs.get callbacks in flight: tab id -> count
    pendingQuery,   \* chrome.tabs.query callbacks of getCurrentActiveTab in flight
    switch,         \* history: the last activation that took over from a tracked tab
    sinceBlur,      \* history: no activation/update/focus event since the last blur
    sinceRemoval,   \* history: no activation/update/focus event since the active tab was removed
    idle,           \* history: no session started since the active tab was removed
    taint,          \* history: the session in progress spans time on an internal page
    msg,            \* the GET_TIME_DATA request being served
    response,       \* the last response sent to the popup
    faulty,         \* environment: storage calls can fail in this run
    statTabs,       \* popup: Object.values(tabData) handed to the statistics list
    heatmapGrid,    \* popup: the grid handed to displayHeatmapData
    heatmapPoints,  \* popup: the text of #heatmap-points
    mostActiveArea, \* popup: the text of #most-active-area
    cnow,           \* page: Date.now(), in milliseconds
    hidden,         \* page: document.hidden
    isTracking,     \* CursorTracker.isTracking
    trackingInterval, \* CursorTracker.trackingInterval is set (a timer handle)
    timers,         \* page: the sampling interval timers that exist
    currentPosition, \* CursorTracker.currentPosition
    heatmapData,    \* CursorTracker.heatmapData
    loadPending,    \* page: the storage read of loadExistingData is in flight
    savePending,    \* page: the storage read of saveHeatmapData is in flight
    heatmapStored,  \* chrome.storage.local, key heatmapData, this page's domain
    clicks,         \* the clicks so far
    lastClick,      \* history: the last click event
    activated,      \* history: the tabs activated in quick succession
    updated,        \* history: the last tab-update event
    clearedAt       \* history: Date.now() when the popup last cleared the data

trackerVars == <<activeTabId, activeTabStart, tabData, storage>>
browserVars == <<open, tabUrl, brActive, focused>>
histVars == <<switch, sinceBlur, sinceRemoval, idle, taint>>
msgVars == <<msg, response, faulty, clearedAt>>
cursorVars == <<cnow, hidden, isTracking, trackingInterval, timers,
                currentPosition, heatmapData, loadPending, savePending,
                heatmapStored, clicks, lastClick>>
popupVars == <<heatmapGrid, heatmapPoints, mostActiveArea>>

vars == <<now, browserVars, trackerVars, pendingGet, pendingQuery, histVars,
          msgVars, statTabs, popupVars, cursorVars, activated, updated>>

----------------------------------------------------------------------------
(* Bounds of the model *)

\* the clock runs from 1 to MaxTime
MaxTime == 3

\* at most this many tabs.get / tabs.query callbacks are in flight
MaxPending == 2

\* tab identifiers (positive integers, never reused by the browser)
Tabs == {1, 2}

----------------------------------------------------------------------------
(* Values *)

\* JavaScript null: activeTabId / activeTabStart when nothing is tracked
Null == 0

\* an absent url (changeInfo.url or tab.url undefined)
NoUrl == [scheme |-> "", host |-> ""]

\* a url is scheme://host/...
Url(scheme, host) == [scheme |-> scheme, host |-> host]

\* the pages each tab of the model visits
Pages(t) ==
    IF t = 1 THEN {Url("https", "a.com"), Url("chrome", "settings")}
    ELSE {Url("https", "b.com"), Url("https", "a.com")}

\* url.startsWith(scheme + "://")
startsWith(url, scheme) == url.scheme = scheme

\* the excluded internal-scheme prefixes of startTracking
ExcludedSchemes ==
    {"chrome", "chrome-extension", "moz-extension", "edge", "brave", "opera"}

\* new URL(url).hostname
getDomain(url) == url.host

\* the last element of a sequence
Last(seq) == seq[Len(seq)]

\* Map.has
has(map, t) == t \in DOMAIN map

\* Map.delete
delete(map, t) == [k \in (DOMAIN map) \ {t} |-> map[k]]

\* Map.set
set(map, t, rec) == [k \in (DOMAIN map) \cup {t} |-> IF k = t THEN rec ELSE map[k]]

\* the tracker's fields as one value
Tracker ==
    [activeTabId |-> activeTabId, activeTabStart |-> activeTabStart,
     tabData |-> tabData, storage |-> storage, now |-> now]

----------------------------------------------------------------------------
(* TimeTracker *)

\* saveTabData that puts the stored map back in memory when the write fails
saveTabData_rollsBack(tr, ok) ==
    IF ok THEN [tr EXCEPT !.storage = tr.tabData]
    ELSE [tr EXCEPT !.tabData = tr.storage]

\* saveTabData: the whole in-memory map goes to storage; a failed write
\* (chrome.runtime.lastError) is logged and leaves storage as it was
saveTabData(tr, ok) ==
    [tr EXCEPT !.storage = IF ok THEN tr.tabData ELSE tr.storage]

\* stopTracking with the duration taken from the second Date.now()
stopTracking_durationFromEnd(tr, end, ok) ==
    LET sessionTime == tr.now - tr.activeTabStart
        cleared == [tr EXCEPT !.activeTabId = Null, !.activeTabStart = Null]
    IN  IF tr.activeTabId # Null /\ tr.activeTabStart # Null
           /\ has(tr.tabData, tr.activeTabId) /\ sessionTime > 0
        THEN LET old == tr.tabData[tr.activeTabId]
                 rec == [old EXCEPT
                            !.totalTime = old.totalTime + sessionTime,
                            !.sessions = Append(old.sessions,
                                [start |-> tr.activeTabStart, end |-> end,
                                 duration |-> end - tr.activeTabStart])]
                 upd == [cleared EXCEPT
                            !.tabData = set(tr.tabData, tr.activeTabId, rec),
                            !.now = end]
             IN  saveTabData(upd, ok)
        ELSE cleared

\* stopTracking that keeps only the newest session
stopTracking_newestOnly(tr, end, ok) ==
    LET sessionTime == tr.now - tr.activeTabStart
        cleared == [tr EXCEPT !.activeTabId = Null, !.activeTabStart = Null]
    IN  IF tr.activeTabId # Null /\ tr.activeTabStart # Null
           /\ has(tr.tabData, tr.activeTabId) /\ sessionTime > 0
        THEN LET old == tr.tabData[tr.activeTabId]
                 rec == [old EXCEPT
                            !.totalTime = old.totalTime + sessionTime,
                            !.sessions = <<[start |-> tr.activeTabStart, end |-> end,
                                            duration |-> sessionTime]>>]
                 upd == [cleared EXCEPT
                            !.tabData = set(tr.tabData, tr.activeTabId, rec),
                            !.now = end]
             IN  saveTabData(upd, ok)
        ELSE cleared

\* stopTracking that finalizes and leaves the active state set
stopTracking_staysActive(tr, end, ok) ==
    LET sessionTime == tr.now - tr.activeTabStart
    IN  IF tr.activeTabId # Null /\ tr.activeTabStart # Null
           /\ has(tr.tabData, tr.activeTabId) /\ sessionTime > 0
        THEN LET old == tr.tabData[tr.activeTabId]
                 rec == [old EXCEPT
                            !.totalTime = old.totalTime + sessionTime,
                            !.sessions = Append(old.sessions,
                                [start |-> tr.activeTabStart, end |-> end,
                                 duration |-> sessionTime])]
                 upd == [tr EXCEPT
                            !.tabData = set(tr.tabData, tr.activeTabId, rec),
                            !.now = end]
             IN  saveTabData(upd, ok)
        ELSE tr

\* stopTracking: finalize the session in progress, then clear the active state.
\* end is the second Date.now() of the handler, ok the outcome of the write.
stopTracking(tr, end, ok) ==
    LET sessionTime == tr.now - tr.activeTabStart
        cleared == [tr EXCEPT !.activeTabId = Null, !.activeTabStart = Null]
    IN  IF tr.activeTabId # Null /\ tr.activeTabStart # Null
           /\ has(tr.tabData, tr.activeTabId) /\ sessionTime > 0
        THEN LET old == tr.tabData[tr.activeTabId]
                 rec == [old EXCEPT
                            !.totalTime = old.totalTime + sessionTime,
                            !.sessions = Append(old.sessions,
                                [start |-> tr.activeTabStart, end |-> end,
                                 duration |-> sessionTime])]
                 upd == [cleared EXCEPT
                            !.tabData = set(tr.tabData, tr.activeTabId, rec),
                            !.now = end]
             IN  saveTabData(upd, ok)
        ELSE cleared

\* startTracking without the list of excluded prefixes
startTracking_noFilter(tr, tabId, url) ==
    IF url = NoUrl
    THEN tr
    ELSE [tr EXCEPT
            !.activeTabId = tabId,
            !.activeTabStart = tr.now,
            !.tabData = IF has(tr.tabData, tabId) THEN tr.tabData
                        ELSE set(tr.tabData, tabId,
                                 [url |-> url, domain |-> getDomain(url),
                                  totalTime |-> 0, sessions |-> <<>>])]

\* startTracking: begin a session unless the url is absent or internal
startTracking(tr, tabId, url) ==
    IF url = NoUrl \/ \E s \in ExcludedSchemes : startsWith(url, s)
    THEN tr
    ELSE [tr EXCEPT
            !.activeTabId = tabId,
            !.activeTabStart = tr.now,
            !.tabData = IF has(tr.tabData, tabId) THEN tr.tabData
                        ELSE set(tr.tabData, tabId,
                                 [url |-> url, domain |-> getDomain(url),
                                  totalTime |-> 0, sessions |-> <<>>])]

\* the second Date.now() of stopTracking: the clock may have moved on by then
DateNowAgain == {t \in {now, now + 1} : t <= MaxTime}

\* the tracker's fields after a handler
Install(tr) ==
    /\ activeTabId' = tr.activeTabId
    /\ activeTabStart' = tr.activeTabStart
    /\ tabData' = tr.tabData
    /\ storage' = tr.storage
    /\ now' = tr.now

\* switchTab: finalize, then start at once when the url is given; with no url
\* the caller issues chrome.tabs.get and the callback starts the session
switchTab(tr, tabId, url, end, ok) ==
    LET stopped == stopTracking(tr, end, ok)
    IN  IF url = NoUrl THEN stopped ELSE startTracking(stopped, tabId, url)

\* handleTabRemoved that clears the active state whichever tab closes
handleTabRemoved_alwaysClears(tr, tabId) ==
    [tr EXCEPT !.tabData = delete(tr.tabData, tabId),
               !.activeTabId = Null, !.activeTabStart = Null]

\* handleTabRemoved that drops the record and leaves the active state alone
handleTabRemoved_keepsActive(tr, tabId) ==
    [tr EXCEPT !.tabData = delete(tr.tabData, tabId)]

\* handleTabRemoved that clears activeTabId and forgets activeTabStart
handleTabRemoved_clearsIdOnly(tr, tabId) ==
    LET dropped == [tr EXCEPT !.tabData = delete(tr.tabData, tabId)]
    IN  IF tr.activeTabId = tabId
        THEN [dropped EXCEPT !.activeTabId = Null]
        ELSE dropped

\* handleTabRemoved: drop the record; clear the active state if it was this tab
handleTabRemoved(tr, tabId) ==
    LET dropped == [tr EXCEPT !.tabData = delete(tr.tabData, tabId)]
    IN  IF tr.activeTabId = tabId
        THEN [dropped EXCEPT !.activeTabId = Null, !.activeTabStart = Null]
        ELSE dropped

\* the guard of handleTabUpdated without the test of the status
UpdateActs_anyStatus(tabId, status, url) ==
    tabId = brActive /\ url # NoUrl

\* the guard of handleTabUpdated
UpdateActs(tabId, status, url) ==
    status = "complete" /\ tabId = brActive /\ url # NoUrl

\* the callback of chrome.tabs.get in switchTab: lastError when the tab is gone
getCallback(tr, tabId) ==
    IF ~open[tabId] THEN tr
    ELSE IF tabUrl[tabId] # NoUrl THEN startTracking(tr, tabId, tabUrl[tabId])
    ELSE tr

\* the callback of chrome.tabs.query in getCurrentActiveTab
queryCallback(tr, err) ==
    IF err THEN tr
    ELSE IF brActive # Null THEN startTracking(tr, brActive, tabUrl[brActive])
    ELSE tr

\* chrome.windows.WINDOW_ID_NONE
WINDOW_ID_NONE == -1

\* the one window of the model
WindowId == 1

----------------------------------------------------------------------------
(* History kept for the properties *)

NoSwitch == [from |-> Null, fromStart |-> Null, to |-> Null, at |-> Null]

\* a session is in progress on a page with an internal url that has the focus
OnInternalPage ==
    /\ activeTabId # Null /\ focused /\ brActive # Null
    /\ \E s \in ExcludedSchemes : startsWith(tabUrl[brActive], s)

\* the outcomes of a storage write (FALSE: chrome.runtime.lastError is set)
WriteOutcomes == IF faulty THEN BOOLEAN ELSE {TRUE}

\* callbacks in flight
Pending == pendingQuery + pendingGet[1] + pendingGet[2]

\* what the message handler and the popup list leave alone
Rest ==
    UNCHANGED <<msgVars, statTabs, popupVars, cursorVars, activated, updated>>

----------------------------------------------------------------------------
(* The browser's events and the tracker's handlers *)

\* the clock advances
Tick ==
    /\ now < MaxTime
    /\ now' = now + 1
    /\ taint' = (taint \/ OnInternalPage)
    /\ UNCHANGED <<browserVars, trackerVars, pendingGet, pendingQuery,
                   switch, sinceBlur, sinceRemoval, idle>>
    /\ Rest

\* chrome.tabs.onActivated: the user selects tab t (what a specification
\* records of the activations in `activated' is its own)
TabActivated(t) ==
    /\ open[t] /\ t # brActive /\ Pending < MaxPending
    /\ brActive' = t
    /\ \E end \in DateNowAgain, ok \in WriteOutcomes :
          Install(switchTab(Tracker, t, NoUrl, end, ok))
    /\ pendingGet' = [pendingGet EXCEPT ![t] = @ + 1]
    /\ switch' = IF activeTabId \notin {Null, t}
                 THEN [from |-> activeTabId, fromStart |-> activeTabStart,
                       to |-> t, at |-> now]
                 ELSE NoSwitch
    /\ sinceBlur' = FALSE /\ sinceRemoval' = FALSE /\ taint' = FALSE
    /\ UNCHANGED <<open, tabUrl, focused, pendingQuery, idle>>
    /\ UNCHANGED <<msgVars, statTabs, popupVars, cursorVars, updated>>

\* chrome.tabs.onUpdated: tab t reports a change; url is changeInfo.url (what a
\* specification records of the event in `updated' is its own)
TabUpdated(t, status, url) ==
    /\ open[t] /\ url # tabUrl[t]
    /\ tabUrl' = IF url = NoUrl THEN tabUrl ELSE [tabUrl EXCEPT ![t] = url]
    /\ IF UpdateActs(t, status, url)
       THEN /\ \E end \in DateNowAgain, ok \in WriteOutcomes :
                  Install(switchTab(Tracker, t, url, end, ok))
            /\ sinceBlur' = FALSE /\ sinceRemoval' = FALSE /\ taint' = FALSE
            /\ idle' = (idle /\ activeTabId' = Null)
       ELSE UNCHANGED <<now, trackerVars, sinceBlur, sinceRemoval, taint, idle>>
    /\ switch' = NoSwitch
    /\ UNCHANGED <<open, brActive, focused, pendingGet, pendingQuery>>
    /\ UNCHANGED <<msgVars, statTabs, popupVars, cursorVars, activated>>

\* chrome.windows.onFocusChanged
WindowFocusChanged(windowId) ==
    /\ IF windowId = WINDOW_ID_NONE
       THEN /\ focused /\ focused' = FALSE
            /\ \E end \in DateNowAgain, ok \in WriteOutcomes :
                  Install(stopTracking(Tracker, end, ok))
            /\ sinceBlur' = TRUE /\ taint' = FALSE
            /\ UNCHANGED <<pendingQuery, sinceRemoval>>
       ELSE /\ ~focused /\ focused' = TRUE /\ Pending < MaxPending
            /\ pendingQuery' = pendingQuery + 1
            /\ sinceBlur' = FALSE /\ sinceRemoval' = FALSE
            /\ UNCHANGED <<now, trackerVars, taint>>
    /\ switch' = NoSwitch
    /\ UNCHANGED <<open, tabUrl, brActive, pendingGet, idle>>
    /\ Rest

\* chrome.tabs.onRemoved: tab t closes
TabRemoved(t) ==
    /\ open[t]
    /\ open' = [open EXCEPT ![t] = FALSE]
    /\ brActive' = IF brActive = t THEN Null ELSE brActive
    /\ Install(handleTabRemoved(Tracker, t))
    /\ sinceRemoval' = (sinceRemoval \/ activeTabId = t)
    /\ idle' = (idle \/ activeTabId = t)
    /\ taint' = (taint /\ activeTabId # t)
    /\ switch' = NoSwitch
    /\ tabUrl' = [tabUrl EXCEPT ![t] = NoUrl]
    /\ UNCHANGED <<focused, pendingGet, pendingQuery, sinceBlur>>
    /\ Rest

\* a chrome.tabs.get callback of switchTab is delivered
GetCallback(t) ==
    /\ pendingGet[t] > 0
    /\ pendingGet' = [pendingGet EXCEPT ![t] = @ - 1]
    /\ Install(getCallback(Tracker, t))
    /\ idle' = (idle /\ activeTabId' = Null)
    /\ taint' = (taint /\ activeTabStart' = activeTabStart /\ activeTabId' = activeTabId)
    /\ switch' = NoSwitch
    /\ UNCHANGED <<browserVars, pendingQuery, sinceBlur, sinceRemoval>>
    /\ Rest

\* a chrome.tabs.query callback of getCurrentActiveTab is delivered
QueryCallback(err) ==
    /\ pendingQuery > 0
    /\ pendingQuery' = pendingQuery - 1
    /\ Install(queryCallback(Tracker, err))
    /\ idle' = (idle /\ activeTabId' = Null)
    /\ taint' = (taint /\ activeTabStart' = activeTabStart /\ activeTabId' = activeTabId)
    /\ switch' = NoSwitch
    /\ UNCHANGED <<browserVars, pendingGet, sinceBlur, sinceRemoval>>
    /\ Rest

----------------------------------------------------------------------------
(* The cursor sampler of a page (CursorTracker, src/content.js).  A point   *)
(* is its position, timestamp and weight; its domain, url and viewport are *)
(* the page's and the same in every point.  The storage holds the points   *)
(* of the page's domain.                                                   *)

\* the buffer keeps the last 1000 points
MaxPoints == 1000

\* the sampling timer's period, in milliseconds
SampleMs == 100

\* 24 * 60 * 60 * 1000 milliseconds
DayMs == 24 * 60 * 60 * 1000

\* the clicks of a run
MaxClicks == 1

\* the sampling periods of a run
MaxTicks == 2

\* Date.now() when the page starts
PageStart == 2 * DayMs

\* the sampling periods that have gone by, the days apart
Ticks == ((cnow - PageStart) % DayMs) \div SampleMs

\* a heatmap point
Point(x, y, timestamp, weight) ==
    [x |-> x, y |-> y, timestamp |-> timestamp, weight |-> weight]

\* { x: 0, y: 0 }
Origin == [x |-> 0, y |-> 0]

\* no click so far
NoClick == [clientX |-> 0, clientY |-> 0, scrollY |-> 0]

\* result.heatmapData[domain]: undefined, or the stored array
Undefined == [defined |-> FALSE, points |-> <<>>]

Stored(points) == [defined |-> TRUE, points |-> points]

\* array.slice(-n)
sliceLast(seq, n) ==
    IF Len(seq) <= n THEN seq ELSE SubSeq(seq, Len(seq) - n + 1, Len(seq))

\* recordPosition that never trims the buffer
recordPosition_unlimited(data, position, x, y, weight, t) ==
    Append(data, Point(IF x = Null THEN position.x ELSE x,
                       IF y = Null THEN position.y ELSE y, t, weight))

\* recordPosition: push the point, keep the last 1000.  x || currentPosition.x
\* takes the current position for null and for 0, which are both falsy.
recordPosition(data, position, x, y, weight, t) ==
    LET pushed == Append(data, Point(IF x = Null THEN position.x ELSE x,
                                     IF y = Null THEN position.y ELSE y,
                                     t, weight))
    IN  IF Len(pushed) > MaxPoints THEN sliceLast(pushed, MaxPoints) ELSE pushed

\* point.timestamp > oneDayAgo
isRecent(point, oneDayAgo) == point.timestamp > oneDayAgo

\* existingData.filter(...) that also keeps the point that is exactly a day old
filter_keepsDayOld(existingData, oneDayAgo) ==
    SelectSeq(existingData, LAMBDA point : point.timestamp >= oneDayAgo)

\* existingData.filter((point) => point.timestamp > oneDayAgo)
filter(existingData, oneDayAgo) ==
    SelectSeq(existingData, LAMBDA point : isRecent(point, oneDayAgo))

\* loadExistingData once the storage read has completed at time t: a failed
\* read is logged, stored points of the domain replace the buffer
loadExistingData(data, stored, err, t) ==
    IF err \/ ~stored.defined THEN data
    ELSE filter(stored.points, t - DayMs)

\* the background's handling of SAVE_HEATMAP_DATA: the message's data becomes
\* the stored heatmapData
saveHeatmapDataHandler(data) == Stored(data)

\* what the sampler leaves alone
CursorRest ==
    UNCHANGED <<now, browserVars, trackerVars, pendingGet, pendingQuery,
                histVars, msgVars, statTabs, popupVars, activated, updated>>

\* the sampling timer fires after its period
TimerSample ==
    /\ timers > 0 /\ Ticks < MaxTicks
    /\ cnow' = cnow + SampleMs
    /\ heatmapData' = IF ~hidden
                      THEN recordPosition(heatmapData, currentPosition,
                                          Null, Null, 1, cnow')
                      ELSE heatmapData
    /\ UNCHANGED <<hidden, isTracking, trackingInterval, timers, currentPosition,
                   loadPending, savePending, heatmapStored, clicks,
                   lastClick>>
    /\ CursorRest

\* handleClick
Click(clientX, clientY, scrollY) ==
    /\ isTracking /\ ~hidden /\ clicks < MaxClicks
    /\ clicks' = clicks + 1
    /\ lastClick' = [clientX |-> clientX, clientY |-> clientY, scrollY |-> scrollY]
    /\ heatmapData' = recordPosition(heatmapData, currentPosition,
                                     clientX, clientY + scrollY, 5, cnow)
    /\ UNCHANGED <<cnow, hidden, isTracking, trackingInterval, timers,
                   currentPosition, loadPending, savePending, heatmapStored>>
    /\ CursorRest

\* the sampler's timer state as one value
Sampler ==
    [isTracking |-> isTracking, trackingInterval |-> trackingInterval,
     timers |-> timers]

\* pauseTracking: clear the interval timer if there is one
pauseTracking(ct) ==
    IF ct.trackingInterval
    THEN [ct EXCEPT !.timers = @ - 1, !.trackingInterval = FALSE]
    ELSE ct

\* resumeTracking that does not look at trackingInterval
resumeTracking_alwaysNewTimer(ct) ==
    IF ct.isTracking
    THEN [ct EXCEPT !.timers = @ + 1, !.trackingInterval = TRUE]
    ELSE ct

\* resumeTracking: a new interval timer if tracking and there is none
resumeTracking(ct) ==
    IF ct.isTracking /\ ~ct.trackingInterval
    THEN [ct EXCEPT !.timers = @ + 1, !.trackingInterval = TRUE]
    ELSE ct

\* handleMouseMove
MouseMove(clientX, clientY, scrollY) ==
    /\ isTracking /\ ~hidden
    /\ currentPosition' = [x |-> clientX, y |-> clientY + scrollY]
    /\ UNCHANGED <<cnow, hidden, isTracking, trackingInterval, timers,
                   heatmapData, loadPending, savePending, heatmapStored, clicks,
                   lastClick>>
    /\ CursorRest

\* visibilitychange: pauseTracking when the page becomes hidden,
\* resumeTracking when it becomes visible
VisibilityChange ==
    /\ hidden' = ~hidden
    /\ LET ct == IF hidden' THEN pauseTracking(Sampler)
                 ELSE resumeTracking(Sampler)
       IN  timers' = ct.timers /\ trackingInterval' = ct.trackingInterval
    /\ UNCHANGED <<cnow, isTracking, currentPosition, heatmapData, loadPending,
                   savePending, heatmapStored, clicks,
                   lastClick>>
    /\ CursorRest

\* the storage read of loadExistingData completes
LoadComplete(err) ==
    /\ loadPending
    /\ loadPending' = FALSE
    /\ heatmapData' = loadExistingData(heatmapData, heatmapStored, err, cnow)
    /\ UNCHANGED <<cnow, hidden, isTracking, trackingInterval, timers,
                   currentPosition, savePending, heatmapStored, clicks,
                   lastClick>>
    /\ CursorRest

\* saveHeatmapData is called (every 10 seconds and on beforeunload)
SaveHeatmapData ==
    /\ ~savePending
    /\ savePending' = TRUE
    /\ UNCHANGED <<cnow, hidden, isTracking, trackingInterval, timers,
                   currentPosition, heatmapData, loadPending, heatmapStored,
                   clicks,
                   lastClick>>
    /\ CursorRest

\* the storage read of saveHeatmapData completes: the buffer goes to the
\* background in a SAVE_HEATMAP_DATA message; a failed read is logged
SaveComplete(err) ==
    /\ savePending
    /\ savePending' = FALSE
    /\ heatmapStored' = IF err THEN heatmapStored
                        ELSE saveHeatmapDataHandler(heatmapData)
    /\ UNCHANGED <<cnow, hidden, isTracking, trackingInterval, timers,
                   currentPosition, heatmapData, loadPending, clicks,
                   lastClick>>
    /\ CursorRest

\* a day goes by in which the sampler's timer does not run (the machine sleeps)
DayPasses ==
    /\ cnow < PageStart + DayMs
    /\ cnow' = cnow + DayMs
    /\ UNCHANGED <<hidden, isTracking, trackingInterval, timers, currentPosition,
                   heatmapData, loadPending, savePending, heatmapStored, clicks,
                   lastClick>>
    /\ CursorRest

\* the constructor and init of a page that is not an internal page
Construct ==
    /\ heatmapData' = <<>>
    /\ isTracking' = TRUE
    /\ trackingInterval' = TRUE
    /\ timers' = 1
    /\ currentPosition' = Origin
    /\ loadPending' = TRUE
    /\ savePending' = FALSE

\* the page is loaded again: a new CursorTracker
PageReload ==
    /\ Construct
    /\ UNCHANGED <<cnow, hidden, heatmapStored, clicks,
                   lastClick>>
    /\ CursorRest

\* n points an earlier page of the domain has saved, a sampling period apart:
\* the first ones from about a day before this page starts, the last of them
\* one period less than a day before it, the others from just before it starts
storedPoints(early, n) ==
    [i \in 1..n |->
        Point(0, 0,
              IF i <= early THEN PageStart - DayMs + (i - early + 1) * SampleMs
              ELSE PageStart - (n + 1 - i) * SampleMs,
              1)]

\* what the storage can hold for the domain when the page starts: nothing, or
\* a few points
StoredFew ==
    {Undefined, Stored(<<>>), Stored(storedPoints(3, 5)),
     Stored(storedPoints(1, 3)), Stored(storedPoints(0, 2))}

\* ... or a full buffer, or one point less
StoredAtStart ==
    {Undefined, Stored(<<>>), Stored(storedPoints(3, 5)),
     Stored(storedPoints(1, MaxPoints)), Stored(storedPoints(0, MaxPoints)),
     Stored(storedPoints(0, MaxPoints - 1))}

\* the page after the constructor
InitPage(h, stored) ==
    /\ cnow = PageStart
    /\ hidden = h
    /\ heatmapData = <<>> /\ isTracking = TRUE /\ trackingInterval = TRUE
    /\ timers = 1 /\ currentPosition = Origin
    /\ loadPending = TRUE /\ savePending = FALSE
    /\ heatmapStored = stored
    /\ clicks = 0
    /\ lastClick = NoClick

----------------------------------------------------------------------------
(* The tracker: state after the constructor, and its steps *)

\* no tab-update event so far
NoUpdate == [status |-> "", hasUrl |-> FALSE, active |-> FALSE]

\* an empty Map / an empty stored object
EmptyMap == [k \in {} |-> NoUrl]

\* no GET_TIME_DATA request yet; no response sent
NoMsg == [stage |-> "idle", url |-> NoUrl, hasTab |-> FALSE, cst |-> 0,
          tracked |-> FALSE, queryFailed |-> FALSE, storageFailed |-> FALSE]

NoResponse == [sent |-> 0, tabData |-> EmptyMap, currentSessionTime |-> 0]

InitBackground ==
    /\ now = 1
    /\ open = [t \in Tabs |-> TRUE]
    /\ tabUrl \in {f \in [Tabs -> UNION {Pages(t) : t \in Tabs}] :
                       \A t \in Tabs : f[t] \in Pages(t)}
    /\ brActive \in Tabs
    /\ focused = TRUE
    /\ activeTabId = Null /\ activeTabStart = Null
    /\ tabData = EmptyMap /\ storage = EmptyMap
    /\ pendingGet = [t \in Tabs |-> 0]
    /\ pendingQuery = 1
    /\ switch = NoSwitch
    /\ sinceBlur = FALSE /\ sinceRemoval = FALSE /\ idle = FALSE /\ taint = FALSE
    /\ msg = NoMsg /\ response = NoResponse
    /\ statTabs = <<>>
    /\ heatmapGrid = <<>> /\ heatmapPoints = 0 /\ mostActiveArea = "No data"
    /\ activated = <<>>
    /\ updated = NoUpdate
    /\ clearedAt = Null

\* the tracker after the constructor, and a page that has just started
InitTracker == InitBackground /\ InitPage(FALSE, Undefined)

\* storage calls succeed
Init == InitTracker /\ faulty = FALSE

Next ==
    \/ Tick
    \/ \E t \in Tabs : TabActivated(t) /\ UNCHANGED activated
    \/ \E t \in Tabs, status \in {"loading", "complete"} :
       \E url \in Pages(t) \cup {NoUrl} :
          TabUpdated(t, status, url) /\ UNCHANGED updated
    \/ \E windowId \in {WINDOW_ID_NONE, WindowId} : WindowFocusChanged(windowId)
    \/ \E t \in Tabs : TabRemoved(t)
    \/ \E t \in Tabs : GetCallback(t)
    \/ \E err \in BOOLEAN : QueryCallback(err)

Spec == Init /\ [][Next]_vars

----------------------------------------------------------------------------
(* The GET_TIME_DATA message handler *)

\* getCurrentSessionTime
getCurrentSessionTime(tr) ==
    IF tr.activeTabId # Null /\ tr.activeTabStart # Null
    THEN tr.now - tr.activeTabStart
    ELSE 0

\* getStoredData: resolves to {} on lastError, to the stored items otherwise;
\* the handler then reads data.tabData || {}
getStoredData(err) == IF err THEN EmptyMap ELSE storage

\* the response to a failed tab query and of the handler's catch branch
DefaultResponse == [tabData |-> EmptyMap, currentSessionTime |-> 0]

\* the response sent once the stored data has arrived
timeDataResponse(m, data) ==
    IF m.hasTab /\ m.url = NoUrl
    THEN DefaultResponse
    ELSE [tabData |-> data,
          currentSessionTime |->
              IF m.hasTab /\ ~startsWith(m.url, "chrome") THEN m.cst ELSE 0]

\* sendResponse
sendResponse(r) ==
    response' = [sent |-> response.sent + 1, tabData |-> r.tabData,
                 currentSessionTime |-> r.currentSessionTime]

\* the outcomes of a tab query or a storage read (TRUE: lastError is set)
ReadErrors == IF faulty THEN BOOLEAN ELSE {FALSE}

TrackerRest ==
    UNCHANGED <<now, browserVars, trackerVars, pendingGet, pendingQuery,
                histVars, faulty, clearedAt, statTabs, popupVars, cursorVars,
                activated, updated>>

\* chrome.runtime.onMessage: a GET_TIME_DATA request arrives
MessageReceived ==
    /\ msg.stage \in {"idle", "done"}
    /\ msg' = [NoMsg EXCEPT !.stage = "query"]
    /\ response' = NoResponse
    /\ TrackerRest

\* the handler's chrome.tabs.query callback
MessageQueryCallback(err) ==
    /\ msg.stage = "query"
    /\ IF err
       THEN /\ sendResponse(DefaultResponse)
            /\ msg' = [msg EXCEPT !.stage = "done", !.queryFailed = TRUE]
       ELSE /\ msg' = [msg EXCEPT
                          !.stage = "storage",
                          !.hasTab = (brActive # Null),
                          !.url = IF brActive # Null THEN tabUrl[brActive] ELSE NoUrl,
                          !.cst = getCurrentSessionTime(Tracker),
                          !.tracked = (activeTabId # Null)]
            /\ UNCHANGED response
    /\ TrackerRest

\* the chrome.storage.local.get callback of getStoredData, and the response
MessageStorageCallback(err) ==
    /\ msg.stage = "storage"
    /\ sendResponse(timeDataResponse(msg, getStoredData(err)))
    /\ msg' = [msg EXCEPT !.stage = "done", !.storageFailed = err]
    /\ TrackerRest

\* the popup's clear-data action once its storage call has completed:
\* chrome.storage.local.clear() (all) or remove(["tabData"]); a failed call
\* is reported and clears nothing.  The popup then asks for the time data.
ClearData(all, err) ==
    /\ msg.stage \in {"idle", "done"}
    /\ storage' = IF err THEN storage ELSE EmptyMap
    /\ heatmapStored' = IF err \/ ~all THEN heatmapStored ELSE Undefined
    /\ clearedAt' = IF err THEN clearedAt ELSE now
    /\ msg' = NoMsg /\ response' = NoResponse
    /\ UNCHANGED <<now, browserVars, activeTabId, activeTabStart, tabData,
                   pendingGet, pendingQuery, histVars, faulty, statTabs,
                   popupVars,
                   cnow, hidden, isTracking, trackingInterval, timers,
                   currentPosition, heatmapData, loadPending, savePending,
                   clicks, lastClick, activated, updated>>

\* the popup's requests and its clear-data action while tabs are activated
\* and the window loses and gains the focus
NextClear ==
    \/ Tick
    \/ \E t \in Tabs : TabActivated(t) /\ UNCHANGED <<activated, updated>>
    \/ \E windowId \in {WINDOW_ID_NONE, WindowId} : WindowFocusChanged(windowId)
    \/ \E t \in Tabs : GetCallback(t)
    \/ \E err \in BOOLEAN : QueryCallback(err)
    \/ MessageReceived
    \/ \E err \in ReadErrors : MessageQueryCallback(err)
    \/ \E err \in ReadErrors : MessageStorageCallback(err)
    \/ \E all \in BOOLEAN, err \in BOOLEAN : ClearData(all, err)

SpecClear == Init /\ [][NextClear]_vars

\* the popup's requests while tabs are activated and the window loses and
\* gains the focus, with tab queries and storage calls that can fail
InitMsg == InitTracker /\ faulty = TRUE

NextMsg ==
    \/ Tick
    \/ \E t \in Tabs : TabActivated(t) /\ UNCHANGED activated
    \/ \E windowId \in {WINDOW_ID_NONE, WindowId} : WindowFocusChanged(windowId)
    \/ \E t \in Tabs : GetCallback(t)
    \/ \E err \in BOOLEAN : QueryCallback(err)
    \/ MessageReceived
    \/ \E err \in ReadErrors : MessageQueryCallback(err)
    \/ \E err \in ReadErrors : MessageStorageCallback(err)

SpecMsg == InitMsg /\ [][NextMsg]_vars

\* tab t is activated; it follows the last activation in quick succession when
\* that one's tabs.get callback is still to come
RapidActivation(t) ==
    /\ TabActivated(t)
    /\ activated' = IF activated # <<>> /\ pendingGet[Last(activated)] > 0
                       /\ Last(activated) # t
                    THEN <<Last(activated), t>>
                    ELSE <<t>>

\* activations and their callbacks only
NextRapid ==
    \/ Tick
    \/ \E t \in Tabs : RapidActivation(t) /\ UNCHANGED updated
    \/ \E t \in Tabs : GetCallback(t)
    \/ \E err \in BOOLEAN : QueryCallback(err)

SpecRapid == Init /\ [][NextRapid]_vars

\* a tab-update event, recorded: changeInfo.status, whether changeInfo.url is
\* set and tab.active
ObservedUpdate(t, status, url) ==
    /\ TabUpdated(t, status, url)
    /\ activated' = activated
    /\ updated' = [status |-> status, hasUrl |-> (url # NoUrl),
                   active |-> (t = brActive)]

\* the tracker with its tab-update events recorded, while the window keeps
\* the focus and no tab is closed
NextUpdate ==
    \/ Tick
    \/ \E t \in Tabs : TabActivated(t) /\ UNCHANGED <<activated, updated>>
    \/ \E t \in Tabs, status \in {"loading", "complete"} :
       \E url \in Pages(t) \cup {NoUrl} :
          ObservedUpdate(t, status, url)
    \/ \E t \in Tabs : GetCallback(t)
    \/ \E err \in BOOLEAN : QueryCallback(err)

SpecUpdate == Init /\ [][NextUpdate]_vars

\* the tracker with storage writes that can fail, while no tab is closed and
\* every navigation is reported as complete with its url
NextWrite ==
    \/ Tick
    \/ \E t \in Tabs : TabActivated(t) /\ UNCHANGED activated
    \/ \E t \in Tabs, status \in {"complete"} :
       \E url \in Pages(t) :
          TabUpdated(t, status, url) /\ UNCHANGED updated
    \/ \E windowId \in {WINDOW_ID_NONE, WindowId} : WindowFocusChanged(windowId)
    \/ \E t \in Tabs : GetCallback(t)
    \/ \E err \in BOOLEAN : QueryCallback(err)

\* ... starting with tab 1 the active tab
InitWrite == InitTracker /\ faulty = TRUE /\ brActive = 1

SpecWrite == InitWrite /\ [][NextWrite]_vars

----------------------------------------------------------------------------
(* The popup's domain statistics (PopupUI.displayDailyStats and            *)
(* PopupManager.displayTimeData).  statTabs is Object.values(tabData): the *)
(* records in ascending order of tab id, the order of an object's integer  *)
(* keys.  A domain is named by a number.                                   *)

\* .slice(0, 10): the list shows the top ten
TopN == 10

\* the popup is given at most this many tab records
MaxStatTabs == TopN + 1

\* the totalTime of a tab record handed to the popup
StatTimes == {1, 2}

\* the domains of the records so far
StatDomains == {statTabs[i].domain : i \in 1..Len(statTabs)}

\* the aggregation loop: domainStats[domain] += tab.totalTime, a new key going
\* to the end of the object (Object.entries lists string keys as inserted)
RECURSIVE aggregate(_, _)
aggregate(tabs, stats) ==
    IF tabs = <<>> THEN stats
    ELSE LET tab == Head(tabs)
             at == {i \in 1..Len(stats) : stats[i].domain = tab.domain}
         IN  aggregate(Tail(tabs),
                IF at = {}
                THEN Append(stats, [domain |-> tab.domain,
                                    totalTime |-> tab.totalTime,
                                    sessions |-> tab.sessions])
                ELSE [i \in 1..Len(stats) |->
                        IF i \in at
                        THEN [stats[i] EXCEPT
                                !.totalTime = @ + tab.totalTime,
                                !.sessions = @ + tab.sessions]
                        ELSE stats[i]])

\* insertion that puts x in front of the entries with the same time
insert_beforeEqual(sorted, x) ==
    LET before == {i \in 1..Len(sorted) : sorted[i].totalTime > x.totalTime}
        k == Cardinality(before)
    IN  SubSeq(sorted, 1, k) \o <<x>> \o SubSeq(sorted, k + 1, Len(sorted))

\* one step of the stable sort with comparator b - a: x goes behind every
\* entry whose time is at least x's
insert(sorted, x) ==
    LET before == {i \in 1..Len(sorted) : sorted[i].totalTime >= x.totalTime}
        k == Cardinality(before)
    IN  SubSeq(sorted, 1, k) \o <<x>> \o SubSeq(sorted, k + 1, Len(sorted))

\* Array.prototype.sort (stable) with comparator b - a
RECURSIVE sort(_, _)
sort(entries, sorted) ==
    IF entries = <<>> THEN sorted
    ELSE sort(Tail(entries), insert(sorted, Head(entries)))

\* .slice(0, n)
slice(seq, n) == SubSeq(seq, 1, IF Len(seq) < n THEN Len(seq) ELSE n)

\* PopupManager.displayTimeData: the entries it renders (none: "No data
\* available yet")
displayTimeData(tabs) == slice(sort(aggregate(tabs, <<>>), <<>>), TopN)

\* PopupUI.displayDailyStats: the (domain, time) entries it renders (none:
\* "No activity data yet")
displayDailyStats(tabs) ==
    LET shown == slice(sort(aggregate(tabs, <<>>), <<>>), TopN)
    IN  [i \in 1..Len(shown) |->
            [domain |-> shown[i].domain, totalTime |-> shown[i].totalTime]]

\* the popup is handed one more tab record: of a domain not seen so far, or
\* of the first domain again (with the smallest time)
AddStatTab(domain, time, sessions) ==
    /\ Len(statTabs) < MaxStatTabs
    /\ \/ domain = Cardinality(StatDomains) + 1
       \/ domain = 1 /\ time = 1
    /\ statTabs' = Append(statTabs,
                          [domain |-> domain, totalTime |-> time,
                           sessions |-> sessions])
    /\ UNCHANGED <<now, browserVars, trackerVars, pendingGet, pendingQuery,
                   histVars, msgVars, popupVars, cursorVars, activated,
                   updated>>

InitStats ==
    /\ InitTracker /\ faulty = FALSE
    /\ brActive = 1 /\ \A t \in Tabs : tabUrl[t] = Url("https", "a.com")

NextStats ==
    \E domain \in 1..MaxStatTabs, time \in StatTimes, sessions \in {1} :
        AddStatTab(domain, time, sessions)

SpecStats == InitStats /\ [][NextStats]_vars

----------------------------------------------------------------------------
(* The cursor sampler's runs *)

InitCursor ==
    /\ InitBackground /\ faulty = FALSE
    /\ brActive = 1 /\ \A t \in Tabs : tabUrl[t] = Url("https", "a.com")
    /\ \E h \in BOOLEAN, stored \in StoredAtStart : InitPage(h, stored)

NextCursor ==
    \/ TimerSample
    \/ \E clientX \in {1}, clientY \in {1}, scrollY \in {0} :
          Click(clientX, clientY, scrollY)
    \/ VisibilityChange
    \/ \E err \in BOOLEAN : LoadComplete(err)
    \/ SaveHeatmapData
    \/ \E err \in BOOLEAN : SaveComplete(err)
    \/ DayPasses
    \/ PageReload

SpecCursor == InitCursor /\ [][NextCursor]_vars

\* the sampler of a page whose domain has a few stored points
InitLoad ==
    /\ InitBackground /\ faulty = FALSE
    /\ brActive = 1 /\ \A t \in Tabs : tabUrl[t] = Url("https", "a.com")
    /\ \E h \in BOOLEAN, stored \in StoredFew : InitPage(h, stored)

SpecLoad == InitLoad /\ [][NextCursor]_vars

\* the viewport coordinates and scroll offsets of the pointer events
Coords == {0, 1}

\* the sampler with its pointer moving and clicking anywhere
NextClick ==
    \/ TimerSample
    \/ \E clientX \in Coords, clientY \in Coords, scrollY \in Coords :
          Click(clientX, clientY, scrollY)
    \/ \E clientX \in Coords, clientY \in Coords, scrollY \in Coords :
          MouseMove(clientX, clientY, scrollY)
    \/ VisibilityChange
    \/ \E err \in BOOLEAN : LoadComplete(err)

\* the sampler of a visible page whose domain has nothing stored
InitFresh ==
    /\ InitBackground /\ faulty = FALSE
    /\ brActive = 1 /\ \A t \in Tabs : tabUrl[t] = Url("https", "a.com")
    /\ InitPage(FALSE, Undefined)

SpecClick == InitFresh /\ [][NextClick]_vars

----------------------------------------------------------------------------
(* The heatmap of the popup (CursorTracker.generateHeatmapGrid,                *)
(* PopupManager.loadHeatmapData, displayHeatmapData and getAreaName).  The    *)
(* grid is Object.values of an object with keys "gridX,gridY": its cells are  *)
(* in the order of their first point.  The canvas is not part of the model.   *)

\* gridSize = 50
GridSize == 50

\* window.innerWidth and window.innerHeight when the grid is generated
Viewports == {[width |-> 50, height |-> 50], [width |-> 100, height |-> 50]}

\* Math.floor(coordinate / (inner / gridSize)), exact for these viewports
cellOf(coordinate, inner) == (coordinate * GridSize) \div inner

\* the forEach body: the point is counted in its cell
addPoint(grid, point, viewport) ==
    LET gridX == cellOf(point.x, viewport.width)
        gridY == cellOf(point.y, viewport.height)
        isKey(i) == grid[i].x = gridX /\ grid[i].y = gridY
    IN  IF \E i \in 1..Len(grid) : isKey(i)
        THEN [i \in 1..Len(grid) |->
                IF isKey(i)
                THEN [grid[i] EXCEPT !.count = @ + 1,
                                     !.totalWeight = @ + point.weight]
                ELSE grid[i]]
        ELSE Append(grid, [count |-> 1, totalWeight |-> point.weight,
                           x |-> gridX, y |-> gridY])

RECURSIVE generateHeatmapGrid(_, _)
generateHeatmapGrid(data, viewport) ==
    IF data = <<>>
    THEN <<>>
    ELSE addPoint(generateHeatmapGrid(SubSeq(data, 1, Len(data) - 1), viewport),
                  Last(data), viewport)

areas ==
    << [name |-> "Top Left",      x |-> <<0, 16>>,  y |-> <<0, 13>>],
       [name |-> "Top Center",    x |-> <<17, 33>>, y |-> <<0, 13>>],
       [name |-> "Top Right",     x |-> <<34, 50>>, y |-> <<0, 13>>],
       [name |-> "Middle Left",   x |-> <<0, 16>>,  y |-> <<14, 26>>],
       [name |-> "Center",        x |-> <<17, 33>>, y |-> <<14, 26>>],
       [name |-> "Middle Right",  x |-> <<34, 50>>, y |-> <<14, 26>>],
       [name |-> "Bottom Left",   x |-> <<0, 16>>,  y |-> <<27, 40>>],
       [name |-> "Bottom Center", x |-> <<17, 33>>, y |-> <<27, 40>>],
       [name |-> "Bottom Right",  x |-> <<34, 50>>, y |-> <<27, 40>>] >>

getAreaName(gridX, gridY) ==
    LET inArea(i) == /\ gridX >= areas[i].x[1] /\ gridX <= areas[i].x[2]
                     /\ gridY >= areas[i].y[1] /\ gridY <= areas[i].y[2]
    IN  IF \E i \in 1..Len(areas) : inArea(i)
        THEN areas[CHOOSE i \in 1..Len(areas) :
                      inArea(i) /\ \A j \in 1..(i - 1) : ~inArea(j)].name
        ELSE "Unknown"

\* Math.max(...heatmapData.map(point => point.totalWeight))
maxActivity(grid) ==
    CHOOSE w \in {grid[i].totalWeight : i \in 1..Len(grid)} :
        \A i \in 1..Len(grid) : grid[i].totalWeight <= w

\* heatmapData.find(point => point.totalWeight === maxActivity)
mostActive(grid) ==
    grid[CHOOSE i \in 1..Len(grid) :
            /\ grid[i].totalWeight = maxActivity(grid)
            /\ \A j \in 1..(i - 1) : grid[j].totalWeight # maxActivity(grid)]

\* the text of #most-active-area after displayHeatmapData
displayHeatmapData(grid) ==
    IF Len(grid) = 0
    THEN "No data"
    ELSE getAreaName(mostActive(grid).x, mostActive(grid).y)

\* loadHeatmapData: the popup opens on the page, window.getCursorHeatmapData
\* runs in it and its result is displayed
LoadHeatmapData(viewport) ==
    /\ isTracking
    /\ heatmapGrid' = generateHeatmapGrid(heatmapData, viewport)
    /\ heatmapPoints' = Len(heatmapGrid')
    /\ mostActiveArea' = displayHeatmapData(heatmapGrid')
    /\ UNCHANGED <<now, browserVars, trackerVars, pendingGet, pendingQuery,
                   histVars, msgVars, statTabs, cursorVars, activated, updated>>

\* the pointer positions of the heatmap runs: viewport columns 0 and 49,
\* rows 0 and 45
Columns == {0, 49}
Rows == {0, 45}

\* the sampler with the popup opened on its page
NextGrid ==
    \/ TimerSample
    \/ \E clientX \in Columns, clientY \in Rows : Click(clientX, clientY, 0)
    \/ \E clientX \in Columns, clientY \in Rows : MouseMove(clientX, clientY, 0)
    \/ \E err \in BOOLEAN : LoadComplete(err)
    \/ \E viewport \in Viewports : LoadHeatmapData(viewport)

SpecGrid == InitFresh /\ [][NextGrid]_vars

----------------------------------------------------------------------------
(* Properties of the tracker *)

IsPrefix(p, q) == Len(p) <= Len(q) /\ \A i \in 1..Len(p) : p[i] = q[i]

IsExcluded(url) == \E s \in ExcludedSchemes : startsWith(url, s)

\* the step starts a session (activeTabId / activeTabStart are set anew)
SessionStarts ==
    /\ activeTabId' # Null
    /\ <<activeTabId', activeTabStart'>> # <<activeTabId, activeTabStart>>

\* the step appends the session in progress to its record
Finalizes ==
    /\ has(tabData', activeTabId)
    /\ tabData'[activeTabId].sessions # <<>>
    /\ tabData'[activeTabId].sessions =
          Append(tabData[activeTabId].sessions,
                 [start |-> activeTabStart,
                  end |-> Last(tabData'[activeTabId].sessions).end,
                  duration |-> now - activeTabStart])
    /\ tabData'[activeTabId].totalTime =
          tabData[activeTabId].totalTime + (now - activeTabStart)

\* every record but t's is what it was
OthersKept(t) ==
    \A u \in Tabs \ {t} :
        /\ has(tabData', u) <=> has(tabData, u)
        /\ has(tabData, u) => tabData'[u] = tabData[u]

\* C1: a session that starts while another one is in progress (for a positive
\* time) finds that one finalized first: appended to its record and added to
\* the record's totalTime.
C1_FinalizedBeforeStart ==
    [][(activeTabId # Null /\ now > activeTabStart /\ SessionStarts)
          => Finalizes]_vars

\* C2 as stated: when tab B is activated while tab A is tracked (and has been
\* for a positive time) and B's session then starts, A's record ends with a session that starts at A's
\* session start and lasts until B's session start.
C2_DurationUntilBStart ==
    [][(/\ switch # NoSwitch
        /\ pendingGet'[switch.to] < pendingGet[switch.to]
        /\ activeTabId' = switch.to /\ switch.at > switch.fromStart)
          => /\ has(tabData', switch.from)
             /\ tabData'[switch.from].sessions # <<>>
             /\ Last(tabData'[switch.from].sessions).start = switch.fromStart
             /\ Last(tabData'[switch.from].sessions).duration =
                   activeTabStart' - switch.fromStart]_vars

\* the browser activates another tab in this step
Activates == brActive' # brActive /\ brActive' # Null

\* C2, amended: when tab B is activated while tab A is tracked, A's record
\* gains exactly one session, from A's session start and of duration (time of
\* the activation event - A's session start), if that duration is positive,
\* and nothing otherwise; no other record changes, and B's session has not
\* started yet (it starts when the tabs.get callback is delivered).
C2_DurationUntilActivation ==
    [][(Activates /\ activeTabId \notin {Null, brActive'})
          => /\ activeTabId' = Null /\ activeTabStart' = Null
             /\ OthersKept(activeTabId)
             /\ IF now > activeTabStart THEN Finalizes ELSE tabData' = tabData]_vars

C2_Witness ==
    /\ switch # NoSwitch /\ switch.at > switch.fromStart
    /\ activeTabId = Null
    /\ has(tabData, switch.from)
    /\ Len(tabData[switch.from].sessions) = 1
    /\ Last(tabData[switch.from].sessions).start = switch.fromStart
    /\ Last(tabData[switch.from].sessions).duration = switch.at - switch.fromStart
    /\ tabData[switch.from].domain = "a.com"

\* C3: while a record exists its totalTime never decreases and its sessions
\* only grow at the end.
C3_RecordsOnlyGrow ==
    [][\A t \in Tabs :
          (has(tabData, t) /\ has(tabData', t))
             => /\ tabData'[t].totalTime >= tabData[t].totalTime
                /\ IsPrefix(tabData[t].sessions, tabData'[t].sessions)]_vars

C3_Witness ==
    \E t \in Tabs :
        /\ has(tabData, t) /\ Len(tabData[t].sessions) >= 2
        /\ tabData[t].totalTime >= 2

\* C4: the removal of tab t leaves no record for t and changes no other
\* record; it clears the active state if t was the active tab and leaves the
\* active tab and its start time alone otherwise.
C4_Removal ==
    [][\A t \in Tabs :
          (open[t] /\ ~open'[t])
             => /\ ~has(tabData', t)
                /\ OthersKept(t)
                /\ IF activeTabId = t
                   THEN activeTabId' = Null /\ activeTabStart' = Null
                   ELSE UNCHANGED <<activeTabId, activeTabStart>>]_vars

C4_Witness ==
    /\ idle /\ sinceRemoval /\ activeTabId = Null /\ activeTabStart = Null
    /\ \E t \in Tabs : ~open[t] /\ ~has(tabData, t) /\ has(storage, t)
    /\ \E u \in Tabs : open[u] /\ has(tabData, u) /\ tabData[u].sessions # <<>>

\* no closed tab has a record or is the active tab
ClosedTabsGone ==
    \A t \in Tabs : ~open[t] => (~has(tabData, t) /\ activeTabId # t)

C6_RemovedFromStorage ==
    \A t \in Tabs : ~open[t] => ~has(storage, t)

\* C7: no time spent on a focused internal page is added to a record's
\* totalTime, and no record has an internal url.
C7_InternalNeverCounted ==
    [][/\ \A t \in Tabs :
             (has(tabData, t) /\ has(tabData', t)
                /\ tabData'[t].totalTime > tabData[t].totalTime) => ~taint
       /\ \A t \in Tabs : has(tabData', t) => ~IsExcluded(tabData'[t].url)]_vars

\* C8: after a blur no tab is tracked until a focus, activation or update
\* event that follows the blur.
C8_NothingTrackedAfterBlur ==
    sinceBlur => (activeTabId = Null /\ activeTabStart = Null)

\* C9: a GET_TIME_DATA request gets exactly one response; after a failed tab
\* query or a failed storage read it is {tabData: {}, currentSessionTime: 0},
\* and currentSessionTime is 0 when no tab is tracked.
C9_Response ==
    /\ msg.stage # "done" => response.sent = 0
    /\ msg.stage = "done" =>
          /\ response.sent = 1
          /\ (msg.queryFailed \/ msg.storageFailed) =>
                (response.tabData = EmptyMap /\ response.currentSessionTime = 0)
          /\ ~msg.tracked => response.currentSessionTime = 0

\* the position of a domain's first record in the popup's input
FirstIndex(domain) ==
    CHOOSE i \in 1..Len(statTabs) :
        /\ statTabs[i].domain = domain
        /\ \A j \in 1..(i - 1) : statTabs[j].domain # domain

\* the sum of the totalTime of a domain's records
RECURSIVE SumTimes(_, _)
SumTimes(domain, n) ==
    IF n = 0 THEN 0
    ELSE SumTimes(domain, n - 1)
           + (IF statTabs[n].domain = domain THEN statTabs[n].totalTime ELSE 0)

\* a list of entries in descending order of time, equal times in the order of
\* the domains' first records, each with its domain's aggregated time
RankedList(list) ==
    /\ Len(list) <= 10
    /\ \A i \in 1..Len(list) :
          /\ list[i].domain \in StatDomains
          /\ list[i].totalTime = SumTimes(list[i].domain, Len(statTabs))
    /\ \A i, j \in 1..Len(list) :
          i < j => \/ list[i].totalTime > list[j].totalTime
                   \/ /\ list[i].totalTime = list[j].totalTime
                      /\ FirstIndex(list[i].domain) < FirstIndex(list[j].domain)

\* C10: the statistics list holds at most ten domains in descending order of
\* their aggregated total time, domains of equal time in the order in which
\* they first occur in the input.
C10_TopTenStable ==
    LET daily == displayDailyStats(statTabs)
        manager == displayTimeData(statTabs)
    IN  RankedList(daily) /\ RankedList(manager)

C10_Witness ==
    /\ Cardinality(StatDomains) > 10
    /\ Len(displayDailyStats(statTabs)) = 10
    /\ \E i \in 1..9 :
          /\ displayDailyStats(statTabs)[i].totalTime
                = displayDailyStats(statTabs)[i + 1].totalTime
          /\ displayDailyStats(statTabs)[i].domain
                < displayDailyStats(statTabs)[i + 1].domain

\* the step appends a session to a record
Appends ==
    \E t \in Tabs :
        /\ has(tabData, t) /\ has(tabData', t)
        /\ Len(tabData'[t].sessions) > Len(tabData[t].sessions)

\* the step is one of a handler that stops tracking (an activation, an update
\* or a blur; not a callback) while a session has been in progress for a
\* positive time
Stops ==
    /\ activeTabId # Null /\ now > activeTabStart /\ has(tabData, activeTabId)
    /\ open' = open /\ Pending' >= Pending
    /\ <<activeTabId', activeTabStart'>> # <<activeTabId, activeTabStart>>

\* C13: a step that stops tracking appends the session in memory and clears
\* the active state (or sets it anew) whether its storage write succeeds or
\* fails; the write puts the whole in-memory map, as it is after the
\* finalization, in storage, or leaves storage as it was when it fails; no
\* other step writes to storage (a failed write is not retried).
C13_FailedWriteOnlyLogged ==
    [][/\ Stops =>
             /\ Finalizes
             /\ storage' \in {storage, [k \in DOMAIN tabData |-> tabData'[k]]}
             /\ OthersKept(activeTabId) \/ activeTabId' \notin DOMAIN tabData
             /\ activeTabId' = Null \/ activeTabStart' = now'
       /\ Appends => Stops
       /\ ~Appends => storage' = storage]_vars

\* a write has failed (a session in memory is not in storage) and a later
\* event has started a session
C13_Witness ==
    /\ activeTabId # Null
    /\ \E t \in Tabs :
          /\ has(tabData, t) /\ tabData[t].sessions # <<>>
          /\ ~has(storage, t) \/ storage[t] # tabData[t]
    /\ \E u \in Tabs : has(storage, u) /\ storage[u].sessions # <<>>

\* the session entries of a map of records, each with its tab and position
Entries(map) ==
    {<<t, i>> \in Tabs \X (1..MaxTime) : has(map, t) /\ i <= Len(map[t].sessions)}

\* no two session entries of the map overlap in time
Disjoint(map) ==
    \A p, q \in Entries(map) :
        p # q =>
            LET a == map[p[1]].sessions[p[2]]
                b == map[q[1]].sessions[q[2]]
            IN  a.end <= b.start \/ b.end <= a.start

\* C14: the recorded sessions, in memory and in storage, are pairwise
\* non-overlapping: of any two entries one ends no later than the other starts.
C14_SessionsDisjoint == Disjoint(tabData) /\ Disjoint(storage)

\* both tabs have a recorded session
C14_Witness ==
    /\ \A t \in Tabs : has(tabData, t) /\ tabData[t].sessions # <<>>
    /\ Cardinality(Entries(tabData)) >= 2

\* C15: when tab A and then tab B have been activated in quick succession
\* (B while A's tabs.get callback was still to come) and B shows a page that
\* is tracked, then once no callback is pending the tracked tab is B.
C15_LastActivatedWins ==
    (Len(activated) = 2 /\ Pending = 0 /\ ~IsExcluded(tabUrl[activated[2]]))
        => activeTabId = activated[2]

\* C16: when the tracked tab navigates to a url of another domain and the
\* tab-update event (status complete, with the url) starts its session anew,
\* the tab's record, to which the time spent from then on is added, has the
\* new url's domain.
C16_TimeUnderNewDomain ==
    [][\A t \in Tabs :
          (/\ activeTabId = t /\ activeTabId' = t
           /\ activeTabStart' # activeTabStart
           /\ tabUrl'[t] # tabUrl[t]
           /\ getDomain(tabUrl'[t]) # getDomain(tabUrl[t]))
             => /\ has(tabData', t)
                /\ tabData'[t].domain = getDomain(tabUrl'[t])]_vars

\* a session has been in progress for a positive time
InProgress ==
    activeTabId # Null /\ now > activeTabStart /\ has(tabData, activeTabId)

\* the step leaves no tab tracked, creates no record and finalizes the session
\* that was in progress
StopsOnly ==
    /\ activeTabId' = Null /\ activeTabStart' = Null
    /\ DOMAIN tabData' = DOMAIN tabData
    /\ IF InProgress THEN Finalizes ELSE tabData' = tabData

\* the step is the tab-update event recorded in updated' (an event like the
\* one before it shows in the tab's url; with no url it changes nothing)
UpdateEvent == updated' # updated \/ (tabUrl' # tabUrl /\ open' = open)

\* the event has status complete, its tab is the active tab and it has a url
ActsOn(u) == u.status = "complete" /\ u.active /\ u.hasUrl

\* C18: a tab-update event that does not have status complete, or whose tab
\* is not the active tab, or that carries no url, leaves activeTabId,
\* activeTabStart, tabData and the persisted storage unchanged.
C18_OtherUpdatesIgnored ==
    [][(UpdateEvent /\ ~ActsOn(updated'))
          => UNCHANGED <<activeTabId, activeTabStart, tabData, storage>>]_vars

\* the tracked tab has navigated with an event that is not complete, and its
\* session goes on
C18_Witness ==
    /\ updated.status = "loading" /\ updated.hasUrl /\ updated.active
    /\ activeTabId = brActive /\ activeTabStart < now
    /\ tabData[activeTabId].url # tabUrl[activeTabId]

\* C17: switchTab to a tab on an internal page finalizes the session in
\* progress and starts nothing: a tab-update event that acts (complete, active
\* tab, url) with an internal url, and the activation of a tab on an internal
\* page, leave activeTabId and activeTabStart null and create no record; the
\* tabs.get callback for a tab with an internal url (or none) changes nothing.
C17_InternalStartsNothing ==
    [][/\ (UpdateEvent /\ ActsOn(updated') /\ IsExcluded(tabUrl'[brActive]))
             => StopsOnly
       /\ (Activates /\ IsExcluded(tabUrl[brActive'])) => StopsOnly
       /\ \A t \in Tabs :
             (/\ pendingGet'[t] < pendingGet[t]
              /\ IsExcluded(tabUrl[t]) \/ tabUrl[t] = NoUrl)
                => UNCHANGED <<activeTabId, activeTabStart, tabData, storage>>]_vars

\* the tracked tab has gone to an internal page: its session is finalized and
\* stored, and nothing is tracked
C17_Witness ==
    /\ ActsOn(updated) /\ brActive # Null /\ IsExcluded(tabUrl[brActive])
    /\ activeTabId = Null /\ activeTabStart = Null
    /\ has(tabData, brActive) /\ tabData[brActive].sessions # <<>>
    /\ storage = tabData

\* the sum of the durations of a record's sessions
RECURSIVE SumDurations(_)
SumDurations(sessions) ==
    IF sessions = <<>> THEN 0
    ELSE Head(sessions).duration + SumDurations(Tail(sessions))

\* C19: a response to a GET_TIME_DATA request made after the popup's
\* clear-data action has completed holds no session that ended before the
\* clear, and no totalTime but that of its sessions.
C19_ClearedDataStaysGone ==
    (clearedAt # Null /\ response.sent > 0)
        => \A t \in DOMAIN response.tabData :
              LET rec == response.tabData[t]
              IN  /\ \A i \in 1..Len(rec.sessions) :
                        ~(rec.sessions[i].end < clearedAt)
                  /\ rec.totalTime = SumDurations(rec.sessions)

\* C20: when activeTabId is set, activeTabStart is set and tabData has a
\* record for activeTabId; when activeTabId is null, activeTabStart is null.
C20_ActiveStateConsistent ==
    /\ activeTabId # Null => (activeTabStart # Null /\ has(tabData, activeTabId))
    /\ activeTabId = Null => activeTabStart = Null

\* a tab is tracked after the tab tracked before it was closed
C20_Witness ==
    /\ activeTabId # Null /\ activeTabStart # Null /\ has(tabData, activeTabId)
    /\ ~idle
    /\ \E t \in Tabs : ~open[t] /\ has(storage, t)

\* C21: every record's totalTime is the sum of the durations of its sessions,
\* and every session entry has a positive duration that is its end minus its
\* start.
C21_TotalsMatchSessions ==
    \A t \in DOMAIN tabData :
        /\ tabData[t].totalTime = SumDurations(tabData[t].sessions)
        /\ \A i \in 1..Len(tabData[t].sessions) :
              LET session == tabData[t].sessions[i]
              IN  /\ session.duration > 0
                  /\ session.duration = session.end - session.start

----------------------------------------------------------------------------
(* Properties of the cursor sampler *)

\* C11: in every state of the sampler the buffer holds at most 1000 points.
C11_AtMostThousand == Len(heatmapData) <= 1000

\* the buffer is full and its newest point was recorded by this page, which
\* pushed the oldest stored point out
C11_Witness ==
    /\ Len(heatmapData) = 1000
    /\ heatmapData[1000].timestamp > PageStart
    /\ heatmapData[1].timestamp > PageStart - 1000 * SampleMs
    /\ ~loadPending

\* the stored points that are less than 24 hours old at time t, by position
Newer(points, t) == {i \in 1..Len(points) : t - points[i].timestamp < DayMs}

\* C12: when the load of the stored points of the domain completes, the buffer
\* holds exactly the stored points that are less than 24 hours old at that
\* time, in their stored order (a failed read leaves the buffer as it is).
C12_LoadKeepsLastDay ==
    [][(loadPending /\ ~loadPending' /\ heatmapStored.defined
          /\ heatmapData' # heatmapData)
          => LET points == heatmapStored.points
                 kept == Newer(points, cnow)
             IN  /\ Len(heatmapData') = Cardinality(kept)
                 /\ \A i \in kept :
                       heatmapData'[Cardinality({j \in kept : j <= i})]
                          = points[i]]_vars

\* a load one sampling period after the page's start has dropped the stored
\* point that was exactly a day old then and the two older ones, and kept
\* the two newer ones
C12_Witness ==
    /\ ~loadPending /\ cnow = PageStart + SampleMs
    /\ heatmapStored = Stored(storedPoints(3, 5))
    /\ heatmapData = SubSeq(heatmapStored.points, 4, 5)

\* C22: at most one sampling timer exists; when the page becomes hidden the
\* timer is removed, and a timer that fires while the page is hidden records
\* nothing; when the page becomes visible again exactly one timer exists; the
\* listeners stay registered (isTracking) throughout.
C22_OneTimer ==
    [][/\ timers' <= 1
       /\ (~hidden /\ hidden') => (timers' = 0 /\ ~trackingInterval')
       /\ (hidden /\ ~hidden') => (timers' = 1 /\ trackingInterval')
       /\ (hidden /\ hidden' /\ cnow' = cnow + SampleMs)
             => heatmapData' = heatmapData
       /\ isTracking /\ isTracking']_vars

\* the page is hidden after it has recorded a sample: no timer is left
C22_Witness ==
    /\ hidden /\ timers = 0 /\ ~trackingInterval /\ isTracking
    /\ ~loadPending /\ heatmapData # <<>>
    /\ Last(heatmapData).timestamp > PageStart

\* C23: when the load of the stored points completes, every point the
\* sampler has recorded since the page started is still in the buffer (the
\* recorded points are the newest, so the cap of 1000 does not drop them).
C23_LoadKeepsRecorded ==
    [][(loadPending /\ ~loadPending' /\ heatmapData # <<>>)
          => \A i \in 1..Len(heatmapData) :
                \E j \in 1..Len(heatmapData') :
                    heatmapData'[j] = heatmapData[i]]_vars

\* C24: a click appends one point with weight 5 at x = clientX and
\* y = clientY + scrollY, whatever the coordinates; a timer sample of a
\* visible page appends one point with weight 1 at the current position.
C24_ClickAndSamplePoints ==
    [][/\ clicks' = clicks + 1
             => heatmapData' =
                   sliceLast(Append(heatmapData,
                                    Point(lastClick'.clientX,
                                          lastClick'.clientY + lastClick'.scrollY,
                                          cnow, 5)), 1000)
       /\ (cnow' = cnow + SampleMs /\ ~hidden)
             => heatmapData' =
                   sliceLast(Append(heatmapData,
                                    Point(currentPosition.x, currentPosition.y,
                                          cnow', 1)), 1000)]_vars

\* the names of the nine regions
Regions == {areas[i].name : i \in 1..Len(areas)}

\* C25: the label shown for a non-empty grid is one of the nine regions,
\* never "Unknown", and it is the label of the first cell in grid order that
\* has the highest weight.
C25_LabelIsNamedRegion ==
    heatmapGrid # <<>>
        => /\ mostActiveArea \in Regions
           /\ mostActiveArea # "Unknown"
           /\ \E i \in 1..Len(heatmapGrid) :
                 /\ \A j \in 1..Len(heatmapGrid) :
                       heatmapGrid[j].totalWeight <= heatmapGrid[i].totalWeight
                 /\ \A j \in 1..(i - 1) :
                       heatmapGrid[j].totalWeight < heatmapGrid[i].totalWeight
                 /\ mostActiveArea
                       = getAreaName(heatmapGrid[i].x, heatmapGrid[i].y)

====
